---- MODULE Spec2Model ----
(***************************************************************************)
(* Model of the backend boilerplate: the per-IP rate-limit middleware      *)
(* (app/middleware/rate_limit.py), the JWT token service                   *)
(* (app/core/security.py), the auth routes (app/routers/auth.py) over the  *)
(* users collection, the RATE_LIMIT setting (app/core/config.py) and the   *)
(* resumes and portfolios routes (app/routers/resumes.py, portfolios.py).  *)
(*                                                                         *)
(* The specifications share the module, one per subsystem:                 *)
(*   SpecRL    the request pipeline: RateLimitMiddleware, CORS, handler    *)
(*   SpecTok   issuing and decoding access / refresh tokens                *)
(*   SpecAuth  register / login / GitHub callback against the users        *)
(*             collection, served by several worker processes;             *)
(*   SpecAuthSeq is SpecAuth with one event loop: a handler whose body has *)
(*             no await between its database calls runs to completion.     *)
(*   SpecGate  POST /auth/refresh and the routes behind get_current_user,  *)
(*             presented with issued and with forged tokens                *)
(*   SpecSession  all the auth routes on one event loop, with the clock    *)
(*             running past the expiry of the tokens                       *)
(*   SpecCfg   settings.rate_limit_parsed() and the construction of the    *)
(*             middleware from it                                          *)
(*   SpecRes   the resumes and portfolios routes called by two users       *)
(***************************************************************************)
EXTENDS Integers, Sequences, FiniteSets, TLC

(***************************************************************************)
(* Bounds of the model.                                                    *)
(***************************************************************************)
MaxRequests == 2   \* max_requests is drawn from 0..MaxRequests
MaxWindow == 2     \* window_seconds is drawn from 1..MaxWindow
MaxTime == 3       \* time.monotonic() reads values in 0..MaxTime
NumRequests == 3   \* requests in the pipeline: 1..NumRequests
TicksPerSecond == 2 \* clock ticks per unit of the exp claim (whole seconds in a JWT)
MaxClock == 4      \* the wall clock runs over 0..MaxClock ticks
MaxTtl == 1        \* the token lifetimes are drawn from 0..MaxTtl seconds
MaxTokens == 1     \* tokens issued in a run of the token service
MaxUsers == 2      \* documents the users collection can hold
MaxCalls == 3      \* auth requests served in a run
MaxAuthClock == 1  \* clock ticks in a run of the auth routes
MaxResumes == 2    \* documents the resumes collection can hold
MaxPortfolios == 2 \* documents ever inserted into the portfolios collection
MaxResClock == 1   \* clock ticks in a run of the resource routes
MaxServed == 3     \* requests the resource routes answer in a run

Keys == {"ip1", "ip2"}
Secrets == {"secret-a", "secret-b"}
Subjects == {"u1", "u2"}
Requests == 1..NumRequests
Workers == {"w1", "w2"}
Emails == {"a@x.io", "b@x.io"}
Passwords == {"password-1", "password-2"}
Salts == {"salt-1"}
GithubIds == {"1001"}

Min(a, b) == IF a <= b THEN a ELSE b

VARIABLES
    \* ---- rate limiter and request pipeline
    max_requests,     \* RateLimitMiddleware.max_requests
    window_seconds,   \* RateLimitMiddleware.window_seconds
    storage,          \* RateLimitMiddleware._storage: key -> <<count, window_start>>
    monotonic,        \* the last reading of time.monotonic()
    req,              \* the requests: where each is in the middleware stack, and its answer
    last,             \* what the last run of dispatch saw and did
    tally,            \* per key: requests dispatched and accepted in its current window
    \* ---- settings and token service
    JWT_SECRET,           \* settings.JWT_SECRET
    JWT_REFRESH_SECRET,   \* settings.JWT_REFRESH_SECRET
    access_ttl,           \* timedelta(minutes=settings.JWT_EXPIRE_MINUTES), in seconds
    refresh_ttl,          \* timedelta(days=settings.JWT_REFRESH_EXPIRE_DAYS), in seconds
    clock,                \* datetime.now(timezone.utc), in ticks
    issued,               \* the tokens issued so far, each with how it was made
    decoded,              \* the last call of decode_access_token / decode_refresh_token
    \* ---- users collection and auth routes
    users,                \* the users collection: the documents in insertion order (_id = position)
    frame,                \* per worker: the auth request it is handling (arguments, locals, answer)
    calls,                \* auth requests started so far
    \* ---- configuration
    RATE_LIMIT,           \* settings.RATE_LIMIT, a string: the sequence of its characters
    parsed,               \* what settings.rate_limit_parsed() returned to the middleware
    \* ---- resumes and portfolios
    resumes,              \* the resumes collection: the documents in insertion order (_id = position)
    portfolios,           \* the portfolios collection: as resumes, None where delete_one removed one
    utcnow,               \* datetime.now(timezone.utc) as the resource routes read it
    answer                \* the last request to a resource route and its response

rlVars == <<max_requests, window_seconds, storage, monotonic, req, last, tally>>
tokVars == <<JWT_SECRET, JWT_REFRESH_SECRET, access_ttl, refresh_ttl, clock, issued, decoded>>

authVars == <<users, frame, calls>>

cfgVars == <<RATE_LIMIT, parsed>>

resVars == <<resumes, portfolios, utcnow, answer>>

extVars == <<cfgVars, resVars>>

vars == <<rlVars, tokVars, authVars, extVars>>

(***************************************************************************)
(* The middleware stack.  add_middleware puts the class at the front of    *)
(* user_middleware and the stack is built from the back, so the class      *)
(* added last is outermost and sees the request first.                     *)
(***************************************************************************)
AddMiddleware(stack, cls) == <<cls>> \o stack

user_middleware == AddMiddleware(AddMiddleware(<<>>, "CORSMiddleware"), "RateLimitMiddleware")

Router == Len(user_middleware) + 1   \* the position after the last middleware

\* CORSMiddleware hands a plain request straight to the next layer: the first
\* position from pos inwards where the request stops
RECURSIVE Inward(_)
Inward(pos) ==
    IF pos > Len(user_middleware) THEN Router
    ELSE IF user_middleware[pos] = "CORSMiddleware" THEN Inward(pos + 1)
    ELSE pos

(***************************************************************************)
(* ErrorResponse and the 429 answer of dispatch.                           *)
(***************************************************************************)
ErrorResponse(error, message) == [success |-> FALSE, error |-> error, message |-> message]

RateLimitResponse ==
    [status |-> 429,
     body |-> ErrorResponse("rate_limit_exceeded",
                            <<"Too many requests. Limit: ", max_requests, " per ", window_seconds, "s.">>)]

HandlerResponse == [status |-> 200, body |-> [success |-> TRUE]]

NoResponse == [status |-> 0]

(***************************************************************************)
(* RateLimitMiddleware.dispatch, lines 39-55.  The coroutine has no await  *)
(* before call_next, so the event loop runs lines 39-54 as one step.       *)
(***************************************************************************)
\* (mutant of WindowAt: the window is compared with > instead of >=)
WindowAt_StrictlyLater(count, start, now) ==
    IF now - start > window_seconds THEN <<0, now>> ELSE <<count, start>>

\* (mutant of WindowAt: the window runs out as soon as the clock has moved)
WindowAt_AnyLater(count, start, now) ==
    IF now - start >= 1 THEN <<0, now>> ELSE <<count, start>>

\* lines 43-44: a window that has run out restarts the count at 0
WindowAt(count, start, now) ==
    IF now - start >= window_seconds THEN <<0, now>> ELSE <<count, start>>

\* (mutant of CountedRecord: a request over the limit restarts the window)
CountedRecord_RejectRestarts(key, now) ==
    IF key \in DOMAIN storage
    THEN LET w == WindowAt(storage[key][1], storage[key][2], now)
         IN  IF w[1] + 1 > max_requests THEN <<w[1] + 1, now>> ELSE <<w[1] + 1, w[2]>>
    ELSE <<1, now>>

\* lines 41-46 and 54: the record written for the key
CountedRecord(key, now) ==
    IF key \in DOMAIN storage
    THEN LET w == WindowAt(storage[key][1], storage[key][2], now)
         IN  <<w[1] + 1, w[2]>>
    ELSE <<1, now>>

\* (mutant of LimitExceeded: the count is compared before it is incremented)
LimitExceeded_BeforeIncrement(key, now) ==
    /\ key \in DOMAIN storage
    /\ WindowAt(storage[key][1], storage[key][2], now)[1] > max_requests

\* (mutant of LimitExceeded: >= instead of >)
LimitExceeded_AtMax(key, now) ==
    /\ key \in DOMAIN storage
    /\ CountedRecord(key, now)[1] >= max_requests

\* line 47: only a key that was in the storage is compared with max_requests
LimitExceeded(key, now) ==
    /\ key \in DOMAIN storage
    /\ CountedRecord(key, now)[1] > max_requests

\* (mutant of StorageAfter: the storage is replaced by the one record written)
StorageAfter_Replaced(key, now) ==
    [k \in {key} |-> CountedRecord(key, now)]

\* self._storage[key] = (count, start), lines 46 and 54
StorageAfter(key, now) ==
    [k \in DOMAIN storage \cup {key} |->
        IF k = key THEN CountedRecord(key, now) ELSE storage[k]]

IdleRequest ==
    [key |-> "ip1", pos |-> 0, state |-> "idle", admitted |-> FALSE, response |-> NoResponse]

\* a request that has been answered: what remains is where it stopped, whether
\* the rate limiter let it through, and the answer
Answered(q, state, response) ==
    [IdleRequest EXCEPT !.state = state, !.pos = q.pos, !.admitted = q.admitted,
                        !.response = response]

\* what the last run of dispatch saw and did (bookkeeping of the model, not program state)
NoDispatch ==
    [key |-> "ip1", t |-> 0, fresh |-> FALSE, reset |-> FALSE, prev |-> 0,
     count |-> 0, start |-> 0, accepted |-> FALSE]

RLInit ==
    /\ max_requests \in 0..MaxRequests
    /\ window_seconds \in 1..MaxWindow
    /\ storage = <<>>
    /\ monotonic = 0
    /\ req = [r \in Requests |-> IdleRequest]
    /\ last = NoDispatch
    /\ tally = <<>>

\* a request reaches the server and enters the outermost middleware
\* (requests are numbered in the order they arrive)
Arrive(r, k) ==
    /\ req[r].state = "idle"
    /\ \A q \in Requests : q < r => req[q].state # "idle"
    /\ req' = [req EXCEPT ![r].key = k, ![r].pos = Inward(1), ![r].state = "inflight"]
    /\ UNCHANGED <<max_requests, window_seconds, storage, monotonic, last, tally>>
    /\ UNCHANGED <<tokVars, authVars, extVars>>

\* the tally of the key's current window: requests dispatched and accepted since it
\* started; and the times, no more than window_seconds back from now, at which
\* requests of the key were accepted in any window
Recent(log, now) == SelectSeq(log, LAMBDA t : t >= now - window_seconds)

TallyAfter(key, start, accepted, now) ==
    LET log == IF key \in DOMAIN tally THEN Recent(tally[key].log, now) ELSE <<>>
        old == IF key \in DOMAIN tally /\ tally[key].start = start
               THEN tally[key]
               ELSE [start |-> start, dispatched |-> 0, accepted |-> 0, log |-> log]
        new == [start |-> start,
                dispatched |-> old.dispatched + 1,
                accepted |-> old.accepted + (IF accepted THEN 1 ELSE 0),
                log |-> IF accepted THEN Append(log, now) ELSE log]
    IN  [k \in DOMAIN tally \cup {key} |-> IF k = key THEN new ELSE tally[k]]

\* (mutant of Dispatch: the 429 answer is built but not returned, so the
\* request goes on to call_next)
Dispatch_NoReturn(r, now) ==
    /\ req[r].state = "inflight"
    /\ req[r].pos \in 1..Len(user_middleware)
    /\ user_middleware[req[r].pos] = "RateLimitMiddleware"
    /\ now >= monotonic
    /\ monotonic' = now
    /\ LET key == req[r].key
           rec == CountedRecord(key, now)
           accepted == ~LimitExceeded(key, now)
       IN  /\ storage' = StorageAfter(key, now)
           /\ req' = [req EXCEPT ![r].pos = Inward(@ + 1), ![r].admitted = accepted]
           /\ last' = [key |-> key, t |-> now,
                       fresh |-> (key \notin DOMAIN storage),
                       reset |-> (key \in DOMAIN storage /\ now - storage[key][2] >= window_seconds),
                       prev |-> IF key \in DOMAIN storage THEN storage[key][1] ELSE 0,
                       count |-> rec[1], start |-> rec[2], accepted |-> accepted]
           /\ tally' = TallyAfter(key, rec[2], accepted, now)
    /\ UNCHANGED <<max_requests, window_seconds>>
    /\ UNCHANGED <<tokVars, authVars, extVars>>

\* line 40: time.monotonic() never goes back; `now` is what this call reads
Dispatch(r, now) ==
    /\ req[r].state = "inflight"
    /\ req[r].pos \in 1..Len(user_middleware)
    /\ user_middleware[req[r].pos] = "RateLimitMiddleware"
    /\ now >= monotonic
    /\ monotonic' = now
    /\ LET key == req[r].key
           rec == CountedRecord(key, now)
           accepted == ~LimitExceeded(key, now)
       IN  /\ storage' = StorageAfter(key, now)
           /\ IF accepted
              THEN req' = [req EXCEPT ![r].pos = Inward(@ + 1), ![r].admitted = TRUE]
              ELSE req' = [req EXCEPT ![r] = Answered(@, "rejected", RateLimitResponse)]
           /\ last' = [key |-> key, t |-> now,
                       fresh |-> (key \notin DOMAIN storage),
                       reset |-> (key \in DOMAIN storage /\ now - storage[key][2] >= window_seconds),
                       prev |-> IF key \in DOMAIN storage THEN storage[key][1] ELSE 0,
                       count |-> rec[1], start |-> rec[2], accepted |-> accepted]
           /\ tally' = TallyAfter(key, rec[2], accepted, now)
    /\ UNCHANGED <<max_requests, window_seconds>>
    /\ UNCHANGED <<tokVars, authVars, extVars>>

\* the router runs the business handler
Handler(r) ==
    /\ req[r].state = "inflight"
    /\ req[r].pos = Router
    /\ req' = [req EXCEPT ![r] = Answered(@, "handled", HandlerResponse)]
    /\ UNCHANGED <<max_requests, window_seconds, storage, monotonic, last, tally>>
    /\ UNCHANGED <<tokVars, authVars, extVars>>


(***************************************************************************)
(* Token service (app/core/security.py).  A JWT is its claims and the      *)
(* signature of those claims under a key; jwt.encode writes a datetime exp *)
(* as whole seconds, and jwt.decode checks the signature against the key   *)
(* it is given and then refuses a token whose exp is before the current    *)
(* whole second.                                                           *)
(***************************************************************************)
None == [none |-> TRUE]

NoDecode == [by |-> "none", token |-> None, at |-> 0, result |-> None]

Seconds(ticks) == ticks \div TicksPerSecond

Sign(key, claims) == <<key, claims>>

\* jwt.encode(to_encode, key, algorithm)
JwtEncode(claims, key) == [claims |-> claims, signature |-> Sign(key, claims)]

\* (mutant of JwtDecode: exp is not validated)
JwtDecode_NoExpiry(token, key, now) ==
    IF token.signature # Sign(key, token.claims) THEN None ELSE token.claims

\* jwt.decode(token, key, algorithms): the claims, or None for a JWTError
JwtDecode(token, key, now) ==
    IF token.signature # Sign(key, token.claims) THEN None
    ELSE IF token.claims.exp < Seconds(now) THEN None
    ELSE token.claims

\* (mutant of create_access_token: the subject is not copied into the claims)
create_access_token_NoSub(data, now) ==
    JwtEncode([sub |-> "", exp |-> Seconds(now + access_ttl * TicksPerSecond), type |-> "access"],
              JWT_SECRET)

create_access_token(data, now) ==
    JwtEncode([sub |-> data.sub, exp |-> Seconds(now + access_ttl * TicksPerSecond), type |-> "access"],
              JWT_SECRET)

create_refresh_token(data, now) ==
    JwtEncode([sub |-> data.sub, exp |-> Seconds(now + refresh_ttl * TicksPerSecond), type |-> "refresh"],
              JWT_REFRESH_SECRET)

\* (mutant of decode_access_token: the type claim is not checked)
decode_access_token_NoTypeCheck(token, now) ==
    JwtDecode(token, JWT_SECRET, now)

decode_access_token(token, now) ==
    LET payload == JwtDecode(token, JWT_SECRET, now)
    IN  IF payload = None THEN None
        ELSE IF payload.type # "access" THEN None
        ELSE payload

decode_refresh_token(token, now) ==
    LET payload == JwtDecode(token, JWT_REFRESH_SECRET, now)
    IN  IF payload = None THEN None
        ELSE IF payload.type # "refresh" THEN None
        ELSE payload

create_token_pair(user_id, now) ==
    <<create_access_token([sub |-> user_id], now), create_refresh_token([sub |-> user_id], now)>>

TokInit ==
    /\ JWT_SECRET \in Secrets
    /\ JWT_REFRESH_SECRET \in Secrets
    /\ access_ttl \in 0..MaxTtl
    /\ refresh_ttl \in 0..MaxTtl
    /\ clock = 0
    /\ issued = {}
    /\ decoded = NoDecode

\* the pipeline before any request (the token service model does not use it)
RLIdle ==
    /\ max_requests = 0
    /\ window_seconds = 1
    /\ storage = <<>>
    /\ monotonic = 0
    /\ req = [r \in Requests |-> IdleRequest]
    /\ last = NoDispatch
    /\ tally = <<>>

IssueAccess(s) ==
    /\ Cardinality(issued) < MaxTokens
    /\ issued' = issued \cup {[by |-> "access", sub |-> s, at |-> clock,
                               token |-> create_access_token([sub |-> s], clock)]}
    /\ UNCHANGED <<JWT_SECRET, JWT_REFRESH_SECRET, access_ttl, refresh_ttl, clock, decoded>>
    /\ UNCHANGED <<rlVars, authVars, extVars>>

IssueRefresh(s) ==
    /\ Cardinality(issued) < MaxTokens
    /\ issued' = issued \cup {[by |-> "refresh", sub |-> s, at |-> clock,
                               token |-> create_refresh_token([sub |-> s], clock)]}
    /\ UNCHANGED <<JWT_SECRET, JWT_REFRESH_SECRET, access_ttl, refresh_ttl, clock, decoded>>
    /\ UNCHANGED <<rlVars, authVars, extVars>>

DecodeAccess(i) ==
    /\ i \in issued
    /\ decoded' = [by |-> "access", token |-> i, at |-> clock,
                   result |-> decode_access_token(i.token, clock)]
    /\ UNCHANGED <<JWT_SECRET, JWT_REFRESH_SECRET, access_ttl, refresh_ttl, clock, issued>>
    /\ UNCHANGED <<rlVars, authVars, extVars>>

DecodeRefresh(i) ==
    /\ i \in issued
    /\ decoded' = [by |-> "refresh", token |-> i, at |-> clock,
                   result |-> decode_refresh_token(i.token, clock)]
    /\ UNCHANGED <<JWT_SECRET, JWT_REFRESH_SECRET, access_ttl, refresh_ttl, clock, issued>>
    /\ UNCHANGED <<rlVars, authVars, extVars>>

ClockTick ==
    /\ clock < MaxClock
    /\ clock' = clock + 1
    /\ UNCHANGED <<JWT_SECRET, JWT_REFRESH_SECRET, access_ttl, refresh_ttl, issued, decoded>>
    /\ UNCHANGED <<rlVars, authVars, extVars>>

(***************************************************************************)
(* Users collection (app/core/database.py) and the auth routes             *)
(* (app/routers/auth.py).  The collection is the bare pymongo collection:  *)
(* no index is created on it, so insert_one stores whatever it is given.   *)
(* Every pymongo call is one step of the database; a handler is the        *)
(* sequence of its calls.                                                  *)
(***************************************************************************)
Null == "null"    \* None in a string-valued field of a document

\* hash_password / verify_password (bcrypt: a salted one-way hash)
hash_password(password, salt) == [salt |-> salt, digest |-> <<salt, password>>]

verify_password(plain_password, hashed_password) ==
    hashed_password.digest = <<hashed_password.salt, plain_password>>

\* str(ObjectId) of the document at position id
OidStr(id) == <<"oid", id>>

\* collection.find_one({field: value}): the _id of the first match, 0 for None
FindOne(field, value) ==
    LET hits == {i \in DOMAIN users : users[i][field] = value}
    IN  IF hits = {} THEN 0 ELSE CHOOSE i \in hits : \A j \in hits : i <= j

\* collection.insert_one(doc)
InsertOne(doc) == Append(users, doc)

\* main.http_exception_handler for HTTPException(status_code, detail) with a string detail
HttpError(status_code, detail) ==
    [status |-> status_code, body |-> ErrorResponse("request_failed", detail)]

\* SuccessResponse(data=Token(access_token, refresh_token))
TokenResponse(status_code, pair) ==
    [status |-> status_code,
     body |-> [success |-> TRUE,
               data |-> [access_token |-> pair[1], refresh_token |-> pair[2], token_type |-> "bearer"]]]

\* RedirectResponse(f"{FRONTEND_URL}/auth/callback?access_token=...&refresh_token=...")
CallbackRedirect(pair) ==
    [status |-> 307, location |-> <<"/auth/callback", pair[1], pair[2]>>]

IdleFrame ==
    [op |-> "none", pc |-> "idle", email |-> "", password |-> "", full_name |-> Null,
     github_id |-> "", found |-> 0, found_name |-> Null, existed |-> FALSE,
     inserted_id |-> 0, outcome |-> "none", response |-> NoResponse,
     token |-> None, at |-> 0, size |-> 0, user |-> 0, ran |-> FALSE]

AuthInit ==
    /\ users = <<>>
    /\ frame = [w \in Workers |-> IdleFrame]
    /\ calls = 0

AuthIdle == AuthInit

Free(w) == frame[w].pc \in {"idle", "done"} /\ calls < MaxCalls

\* what stays of a handler's frame once it has answered
Return(f, outcome, response) ==
    [IdleFrame EXCEPT !.op = f.op, !.pc = "done", !.email = f.email, !.existed = f.existed,
                      !.inserted_id = f.inserted_id, !.outcome = outcome, !.response = response]

\* another worker is between two database calls of its handler
Midway(w) == \E v \in Workers \ {w} : frame[v].pc \notin {"idle", "done", "begin"}

(* ---- POST /auth/register (lines 60-86) ---- *)
StartRegister(w, email, password, full_name) ==
    /\ Free(w)
    /\ frame' = [frame EXCEPT ![w] = [IdleFrame EXCEPT !.op = "register", !.pc = "begin",
                     !.email = email, !.password = password, !.full_name = full_name]]
    /\ calls' = calls + 1
    /\ UNCHANGED <<users, rlVars, tokVars, extVars>>

\* (mutant of RegisterLookup: the query names a field the documents do not key on)
RegisterLookup_WrongField(email) == FindOne("full_name", email)

\* line 64: users.find_one({"email": data.email})
RegisterLookup(email) == FindOne("email", email)

\* lines 64-68
RegisterFind(w) ==
    /\ frame[w].op = "register" /\ frame[w].pc = "begin"
    /\ LET found == RegisterLookup(frame[w].email)
           existed == \E i \in DOMAIN users : users[i].email = frame[w].email
       IN  frame' = [frame EXCEPT ![w] =
                IF found # 0
                THEN Return([@ EXCEPT !.existed = existed], "conflict",
                            HttpError(400, "Email already registered"))
                ELSE [@ EXCEPT !.found = found, !.existed = existed, !.pc = "insert"]]
    /\ UNCHANGED <<users, calls, rlVars, tokVars, extVars>>

\* lines 70-86
RegisterInsert(w, salt) ==
    /\ frame[w].op = "register" /\ frame[w].pc = "insert"
    /\ Len(users) < MaxUsers
    /\ LET now == clock
           user_doc == [email |-> frame[w].email,
                        password_hash |-> hash_password(frame[w].password, salt),
                        full_name |-> frame[w].full_name,
                        avatar_url |-> Null,
                        provider |-> "email",
                        github_id |-> Null,
                        subscription_tier |-> "free",
                        last_login |-> now, created_at |-> now, updated_at |-> now]
           inserted_id == Len(users) + 1
       IN  /\ users' = InsertOne(user_doc)
           /\ frame' = [frame EXCEPT ![w] =
                            Return([@ EXCEPT !.inserted_id = inserted_id], "ok",
                                   TokenResponse(201, create_token_pair(OidStr(inserted_id), now)))]
    /\ UNCHANGED <<calls, rlVars, tokVars, extVars>>

(* ---- POST /auth/login (lines 94-114) ---- *)
StartLogin(w, username, password) ==
    /\ Free(w)
    /\ frame' = [frame EXCEPT ![w] = [IdleFrame EXCEPT !.op = "login", !.pc = "begin",
                     !.email = username, !.password = password]]
    /\ calls' = calls + 1
    /\ UNCHANGED <<users, rlVars, tokVars, extVars>>

\* (mutant of LoginError: each failure gets a message of its own)
LoginError_Telling(reason) ==
    IF reason = "absent" THEN HttpError(401, "User not found")
    ELSE IF reason = "no_password" THEN HttpError(401, "Use GitHub to sign in")
    ELSE HttpError(401, "Invalid email or password")

\* lines 100-103 (no user, or no password_hash) and 106-109 (wrong password)
LoginError(reason) ==
    IF reason \in {"absent", "no_password"}
    THEN HttpError(401, "Invalid email or password")
    ELSE HttpError(401, "Invalid email or password")

\* (mutant of LoginFind: a login refused for its password still stamps last_login)
LoginFind_StampsRefused(w) ==
    /\ frame[w].op = "login" /\ frame[w].pc = "begin"
    /\ LET user == FindOne("email", frame[w].email)
           reason == IF user = 0 THEN "absent"
                     ELSE IF users[user].password_hash = None THEN "no_password"
                     ELSE IF ~verify_password(frame[w].password, users[user].password_hash)
                          THEN "bad_password"
                     ELSE "ok"
       IN  /\ frame' = [frame EXCEPT ![w] =
                  IF reason = "ok"
                  THEN [@ EXCEPT !.found = user, !.pc = "update"]
                  ELSE Return(@, reason, LoginError(reason))]
           /\ users' = IF reason = "bad_password" THEN [users EXCEPT ![user].last_login = clock]
                       ELSE users
    /\ UNCHANGED <<calls, rlVars, tokVars, extVars>>

\* lines 98-109
LoginFind(w) ==
    /\ frame[w].op = "login" /\ frame[w].pc = "begin"
    /\ LET user == FindOne("email", frame[w].email)
           reason == IF user = 0 THEN "absent"
                     ELSE IF users[user].password_hash = None THEN "no_password"
                     ELSE IF ~verify_password(frame[w].password, users[user].password_hash)
                          THEN "bad_password"
                     ELSE "ok"
       IN  frame' = [frame EXCEPT ![w] =
                IF reason = "ok"
                THEN [@ EXCEPT !.found = user, !.pc = "update"]
                ELSE Return(@, reason, LoginError(reason))]
    /\ UNCHANGED <<users, calls, rlVars, tokVars, extVars>>

\* lines 43-48: _update_last_login
UpdateLastLogin(id, now) == [users EXCEPT ![id].last_login = now]

\* lines 111-114
LoginUpdate(w) ==
    /\ frame[w].op = "login" /\ frame[w].pc = "update"
    /\ users' = UpdateLastLogin(frame[w].found, clock)
    /\ frame' = [frame EXCEPT ![w] =
                     Return(@, "ok", TokenResponse(200, create_token_pair(OidStr(frame[w].found), clock)))]
    /\ UNCHANGED <<calls, rlVars, tokVars, extVars>>

(* ---- GET /auth/github/callback, after the exchange with GitHub (lines 242-285) ---- *)
StartGithub(w, github_id, email, name) ==
    /\ Free(w)
    /\ frame' = [frame EXCEPT ![w] = [IdleFrame EXCEPT !.op = "github", !.pc = "begin",
                     !.github_id = github_id, !.email = email, !.full_name = name]]
    /\ calls' = calls + 1
    /\ UNCHANGED <<users, rlVars, tokVars, extVars>>

\* line 245: users.find_one({"github_id": github_id})
GithubFindById(w) ==
    /\ frame[w].op = "github" /\ frame[w].pc = "begin"
    /\ LET user == FindOne("github_id", frame[w].github_id)
       IN  frame' = [frame EXCEPT ![w] =
                IF user # 0
                THEN [@ EXCEPT !.found = user, !.found_name = users[user].full_name, !.pc = "write"]
                ELSE [@ EXCEPT !.pc = "find_email"]]
    /\ UNCHANGED <<users, calls, rlVars, tokVars, extVars>>

\* lines 246-247: users.find_one({"email": email})
GithubFindByEmail(w) ==
    /\ frame[w].op = "github" /\ frame[w].pc = "find_email"
    /\ LET user == FindOne("email", frame[w].email)
       IN  frame' = [frame EXCEPT ![w] =
                IF user # 0
                THEN [@ EXCEPT !.found = user, !.found_name = users[user].full_name, !.pc = "write"]
                ELSE [@ EXCEPT !.found = 0, !.pc = "write"]]
    /\ UNCHANGED <<users, calls, rlVars, tokVars, extVars>>

\* lines 249-285
GithubWrite(w) ==
    /\ frame[w].op = "github" /\ frame[w].pc = "write"
    /\ LET now == clock
           f == frame[w]
       IN  IF f.found # 0
           THEN /\ users' = [users EXCEPT ![f.found] =
                                [@ EXCEPT !.github_id = f.github_id,
                                          !.full_name = IF f.full_name # Null THEN f.full_name
                                                        ELSE f.found_name,
                                          !.avatar_url = "gh-avatar",
                                          !.last_login = now,
                                          !.updated_at = now]]
                /\ frame' = [frame EXCEPT ![w] =
                                 Return(f, "ok", CallbackRedirect(create_token_pair(OidStr(f.found), now)))]
           ELSE /\ Len(users) < MaxUsers
                /\ users' = InsertOne([email |-> f.email,
                                       password_hash |-> None,
                                       full_name |-> f.full_name,
                                       avatar_url |-> "gh-avatar",
                                       provider |-> "github",
                                       github_id |-> f.github_id,
                                       subscription_tier |-> "free",
                                       last_login |-> now, created_at |-> now, updated_at |-> now])
                /\ frame' = [frame EXCEPT ![w] =
                                 Return([f EXCEPT !.inserted_id = Len(users) + 1], "ok",
                                        CallbackRedirect(create_token_pair(OidStr(Len(users) + 1), now)))]
    /\ UNCHANGED <<calls, rlVars, tokVars, extVars>>

\* datetime.now(timezone.utc) moves on
AuthTick ==
    /\ clock < MaxAuthClock
    /\ clock' = clock + 1
    /\ UNCHANGED <<JWT_SECRET, JWT_REFRESH_SECRET, access_ttl, refresh_ttl, issued, decoded>>
    /\ UNCHANGED <<rlVars, authVars, extVars>>

(***************************************************************************)
(* The handlers that take a token: POST /auth/refresh and every route      *)
(* that declares Depends(get_current_user).  Each makes one database call  *)
(* (find_one by _id), so each is one step.  The token is whatever the      *)
(* client sends: a token it was given, or any token signed with a key      *)
(* (the settings ship with default secrets).                               *)
(***************************************************************************)
NoSub == <<"none", 0>>      \* payload.get("sub") is None
EmptySub == <<"str", 0>>    \* the sub claim is ""
BadSub == <<"str", 1>>      \* the sub claim is a string that is not 24 hex digits

\* payload.get("sub")
PayloadSub(payload) == IF "sub" \in DOMAIN payload THEN payload.sub ELSE NoSub

\* ObjectId(user_id) returns (it raises InvalidId / TypeError otherwise)
IsObjectId(user_id) == user_id[1] = "oid"

\* (mutant of FindById: only the newest document is found)
FindById_Newest(user_id) == IF user_id[2] = Len(users) /\ user_id[2] > 0 THEN user_id[2] ELSE 0

\* users.find_one({"_id": ObjectId(user_id)}): the _id found, 0 for None
FindById(user_id) == IF user_id[2] \in DOMAIN users THEN user_id[2] ELSE 0

\* main.general_exception_handler, for an exception that is not an HTTPException
InternalError ==
    [status |-> 500, body |-> ErrorResponse("internal_server_error", "An unexpected error occurred")]

\* (mutant of RefreshOutcome: a refresh token that was presented before is refused)
RefreshOutcome_SingleUse(token, now) ==
    LET payload == decode_refresh_token(token, now)
        user_id == PayloadSub(payload)
    IN  IF payload = None \/ \E w \in Workers : frame[w].op = "refresh" /\ frame[w].token = token
        THEN "rejected"
        ELSE IF user_id \in {NoSub, EmptySub} THEN "no_sub"
        ELSE IF ~IsObjectId(user_id) THEN "raised"
        ELSE IF FindById(user_id) = 0 THEN "not_found"
        ELSE "ok"

\* the route of refresh through its checks (auth.py lines 124-139)
RefreshOutcome(token, now) ==
    LET payload == decode_refresh_token(token, now)
        user_id == PayloadSub(payload)
    IN  IF payload = None THEN "rejected"
        ELSE IF user_id \in {NoSub, EmptySub} THEN "no_sub"
        ELSE IF ~IsObjectId(user_id) THEN "raised"
        ELSE IF FindById(user_id) = 0 THEN "not_found"
        ELSE "ok"

\* the HTTPException of each failed check of refresh (lines 125-129, 132-136, 139-143);
\* an exception of ObjectId() is none of them
RefreshError(outcome) ==
    CASE outcome = "rejected" -> HttpError(401, "Invalid or expired refresh token")
      [] outcome = "no_sub" -> HttpError(401, "Invalid refresh token")
      [] outcome = "not_found" -> HttpError(401, "User not found")
      [] OTHER -> InternalError

\* line 145: create_token_pair(user_id)
RefreshPair(payload, now) == create_token_pair(PayloadSub(payload), now)

\* POST /auth/refresh (lines 122-146)
Refresh(w, token) ==
    /\ Free(w)
    /\ LET now == clock
           outcome == RefreshOutcome(token, now)
           payload == decode_refresh_token(token, now)
           call == [IdleFrame EXCEPT !.op = "refresh", !.pc = "done", !.token = token,
                                     !.at = now, !.size = Len(users), !.outcome = outcome]
       IN  frame' = [frame EXCEPT ![w] =
                IF outcome = "ok"
                THEN [call EXCEPT !.user = FindById(PayloadSub(payload)),
                                  !.response = TokenResponse(200, RefreshPair(payload, now))]
                ELSE [call EXCEPT !.response = RefreshError(outcome)]]
    /\ calls' = calls + 1
    /\ UNCHANGED <<users, rlVars, tokVars, extVars>>

\* the route of get_current_user through its checks (security.py lines 84-96)
CurrentUserOutcome(token, now) ==
    LET payload == decode_access_token(token, now)
        user_id == PayloadSub(payload)
    IN  IF payload = None THEN "rejected"
        ELSE IF user_id = NoSub THEN "no_sub"
        ELSE IF ~IsObjectId(user_id) THEN "raised"
        ELSE IF FindById(user_id) = 0 THEN "not_found"
        ELSE "ok"

\* credentials_exception (lines 78-82) as http_exception_handler renders it;
\* an exception of ObjectId() is not an HTTPException
CurrentUserError(outcome) ==
    IF outcome \in {"rejected", "no_sub", "not_found"}
    THEN HttpError(401, "Could not validate credentials")
    ELSE InternalError

\* get_current_user: the _id of the document it returns, 0 when it raises
get_current_user(token, now) ==
    IF CurrentUserOutcome(token, now) = "ok"
    THEN FindById(PayloadSub(decode_access_token(token, now)))
    ELSE 0

\* the routes that declare current_user: dict = Depends(get_current_user)
ProtectedRoutes == {"me", "resumes", "portfolios", "uploads"}

\* a request to a protected route: the dependency is resolved first and the
\* body of the handler runs only with its result
Protected(w, route, token) ==
    /\ Free(w)
    /\ LET now == clock
           outcome == CurrentUserOutcome(token, now)
           current_user == get_current_user(token, now)
           call == [IdleFrame EXCEPT !.op = route, !.pc = "done", !.token = token,
                                     !.at = now, !.size = Len(users), !.outcome = outcome]
       IN  frame' = [frame EXCEPT ![w] =
                IF current_user # 0
                THEN [call EXCEPT !.user = current_user, !.ran = TRUE,
                                  !.response = [status |-> 200,
                                                body |-> [success |-> TRUE,
                                                          data |-> <<route, OidStr(current_user)>>]]]
                ELSE [call EXCEPT !.response = CurrentUserError(outcome)]]
    /\ calls' = calls + 1
    /\ UNCHANGED <<users, rlVars, tokVars, extVars>>

\* the token pair a finished call answered with, <<>> if none
PairOf(f) ==
    IF f.pc = "done" /\ f.outcome = "ok" /\ f.op \in {"register", "login", "refresh"}
    THEN <<f.response.body.data.access_token, f.response.body.data.refresh_token>>
    ELSE IF f.pc = "done" /\ f.outcome = "ok" /\ f.op = "github"
    THEN <<f.response.location[2], f.response.location[3]>>
    ELSE <<>>

\* the tokens the clients hold: the ones they were answered with or sent
Held ==
    UNION {{PairOf(frame[w])[i] : i \in DOMAIN PairOf(frame[w])} : w \in Workers}
        \cup {frame[w].token : w \in {v \in Workers : frame[v].token # None}}

\* tokens made without the server, signed with one of the keys
ForgedSubs == {OidStr(1), BadSub, EmptySub}

Forged ==
    {JwtEncode([sub |-> sub, exp |-> MaxClock, type |-> "refresh"], JWT_REFRESH_SECRET) : sub \in ForgedSubs}
        \cup {JwtEncode([sub |-> sub, exp |-> MaxClock, type |-> "access"], JWT_SECRET) : sub \in ForgedSubs}
        \cup {JwtEncode([exp |-> MaxClock, type |-> "refresh"], JWT_REFRESH_SECRET),
              JwtEncode([exp |-> MaxClock, type |-> "access"], JWT_SECRET),
              JwtEncode([sub |-> OidStr(1), exp |-> -1, type |-> "refresh"], JWT_REFRESH_SECRET),
              JwtEncode([sub |-> OidStr(1), exp |-> -1, type |-> "access"], JWT_SECRET)}

\* what a client may send to a route that expects a token of this kind: a
\* token it holds, or a forged one of that kind or of no subject
Presented(kind) ==
    Held \cup {t \in Forged : t.claims.type = kind \/ "sub" \notin DOMAIN t.claims}

\* the workers are interchangeable here: they take the requests in turn
Turn(w) == w = (IF calls % 2 = 0 THEN "w1" ELSE "w2")

\* the token routes next to registration, on one event loop
GateNext ==
    \/ \E w \in Workers : Turn(w) /\ StartRegister(w, "a@x.io", "password-1", "Ann")
    \/ \E w \in Workers : ~Midway(w) /\ RegisterFind(w)
    \/ \E w \in Workers, salt \in Salts : ~Midway(w) /\ RegisterInsert(w, salt)
    \/ \E w \in Workers, token \in Presented("refresh") : Turn(w) /\ Refresh(w, token)
    \/ \E w \in Workers, route \in ProtectedRoutes, token \in Presented("access") :
           Turn(w) /\ Protected(w, route, token)
    \/ AuthTick

\* a step of worker w's handler
HandlerStep(w) ==
    \/ RegisterFind(w)
    \/ \E salt \in Salts : RegisterInsert(w, salt)
    \/ LoginFind(w)
    \/ LoginUpdate(w)
    \/ GithubFindById(w)
    \/ GithubFindByEmail(w)
    \/ GithubWrite(w)

StartRequest(w) ==
    \/ \E e \in Emails : StartRegister(w, e, "password-1", "Ann")
    \/ \E e \in Emails, p \in Passwords : StartLogin(w, e, p)
    \/ \E g \in GithubIds, e \in Emails, n \in {Null, "Octo"} : StartGithub(w, g, e, n)

\* datetime.now(timezone.utc) moves on by a whole second, between two requests
SecondPasses ==
    /\ \A w \in Workers : frame[w].pc \in {"idle", "done"}
    /\ clock + TicksPerSecond <= MaxClock
    /\ clock' = clock + TicksPerSecond
    /\ UNCHANGED <<JWT_SECRET, JWT_REFRESH_SECRET, access_ttl, refresh_ttl, issued, decoded>>
    /\ UNCHANGED <<rlVars, authVars, extVars>>

\* a client's session on one event loop: it registers, logs in or comes back
\* from GitHub, and presents tokens to refresh and to a protected route, while
\* the clock runs past the expiry of the tokens
SessionRequest(w) ==
    \/ StartRegister(w, "a@x.io", "password-1", "Ann")
    \/ \E e \in Emails, p \in Passwords : StartLogin(w, e, p)
    \/ \E e \in Emails : StartGithub(w, "1001", e, "Octo")

SessionNext ==
    \/ \E w \in Workers : Turn(w) /\ SessionRequest(w)
    \/ \E w \in Workers : ~Midway(w) /\ HandlerStep(w)
    \/ \E w \in Workers, token \in Presented("refresh") : Turn(w) /\ Refresh(w, token)
    \/ \E w \in Workers, token \in Presented("access") : Turn(w) /\ Protected(w, "me", token)
    \/ SecondPasses

\* several server processes share the database: their handlers interleave
\* between database calls
AuthNext ==
    \/ \E w \in Workers : StartRequest(w)
    \/ \E w \in Workers : HandlerStep(w)
    \/ AuthTick

\* one event loop: the handlers have no await between their database calls,
\* so a handler that has started its calls finishes them before another runs
AuthSeqNext ==
    \/ \E w \in Workers : StartRequest(w)
    \/ \E w \in Workers : ~Midway(w) /\ HandlerStep(w)
    \/ AuthTick


(***************************************************************************)
(* Settings.rate_limit_parsed (app/core/config.py, lines 59-75) and the     *)
(* constructor of the middleware that calls it.  A string is the sequence  *)
(* of its characters.                                                      *)
(***************************************************************************)
Whitespace == {" ", "\t"}

Digits == <<"0", "1", "2", "3", "4", "5", "6", "7", "8", "9">>

\* str.strip()
RECURSIVE LStrip(_)
LStrip(str) ==
    IF str # <<>> /\ Head(str) \in Whitespace THEN LStrip(Tail(str)) ELSE str

RECURSIVE RStrip(_)
RStrip(str) ==
    IF str # <<>> /\ str[Len(str)] \in Whitespace
    THEN RStrip(SubSeq(str, 1, Len(str) - 1)) ELSE str

Strip(str) == RStrip(LStrip(str))

\* str.lower(), on the letters the inputs are written with
LowerChar(c) ==
    CASE c = "M" -> "m" [] c = "I" -> "i" [] c = "N" -> "n" [] c = "H" -> "h" [] OTHER -> c

Lower(str) == [i \in DOMAIN str |-> LowerChar(str[i])]

\* str.replace(" ", "")
RemoveSpaces(str) == SelectSeq(str, LAMBDA c : c # " ")

\* the index of the first "/" of the string, 0 if it has none
FirstSlash(str) ==
    IF \E i \in DOMAIN str : str[i] = "/"
    THEN CHOOSE i \in DOMAIN str : str[i] = "/" /\ \A j \in 1..(i - 1) : str[j] # "/"
    ELSE 0

\* int(part): optional surrounding whitespace, an optional sign, then digits only
IsDigit(c) == \E d \in DOMAIN Digits : Digits[d] = c

DigitValue(c) == (CHOOSE d \in DOMAIN Digits : Digits[d] = c) - 1

RECURSIVE Decimal(_)
Decimal(digits) ==
    IF digits = <<>> THEN 0
    ELSE 10 * Decimal(SubSeq(digits, 1, Len(digits) - 1)) + DigitValue(digits[Len(digits)])

Unsigned(part) ==
    LET p == Strip(part)
    IN  IF p # <<>> /\ Head(p) \in {"-", "+"} THEN Tail(p) ELSE p

\* int(part) does not raise ValueError
IntParses(part) ==
    /\ Unsigned(part) # <<>>
    /\ \A i \in DOMAIN Unsigned(part) : IsDigit(Unsigned(part)[i])

IntOf(part) ==
    IF Strip(part) # <<>> /\ Head(Strip(part)) = "-"
    THEN 0 - Decimal(Unsigned(part)) ELSE Decimal(Unsigned(part))

Minute == <<"m", "i", "n", "u", "t", "e">>
Hour == <<"h", "o", "u", "r">>
Second == <<"s", "e", "c", "o", "n", "d">>

\* (mutant of rate_limit_parsed: an unknown unit gives the whole default)
rate_limit_parsed_UnknownUnitDefault(setting) ==
    LET str == RemoveSpaces(Lower(Strip(setting)))
        cut == FirstSlash(str)
        part == SubSeq(str, 1, cut - 1)
        window == SubSeq(str, cut + 1, Len(str))
    IN  IF cut = 0 THEN <<100, 60>>
        ELSE IF ~IntParses(part) THEN <<100, 60>>
        ELSE IF window \in {Minute, SubSeq(Minute, 1, 3), <<"m">>} THEN <<IntOf(part), 60>>
        ELSE IF window \in {Hour, <<"h">>} THEN <<IntOf(part), 3600>>
        ELSE IF window \in {Second, SubSeq(Second, 1, 3), <<"s">>} THEN <<IntOf(part), 1>>
        ELSE <<100, 60>>

\* lines 61-75
rate_limit_parsed(setting) ==
    LET str == RemoveSpaces(Lower(Strip(setting)))
        cut == FirstSlash(str)
        part == SubSeq(str, 1, cut - 1)
        window == SubSeq(str, cut + 1, Len(str))
    IN  IF cut = 0 THEN <<100, 60>>
        ELSE IF ~IntParses(part) THEN <<100, 60>>
        ELSE IF window \in {Minute, SubSeq(Minute, 1, 3), <<"m">>} THEN <<IntOf(part), 60>>
        ELSE IF window \in {Hour, <<"h">>} THEN <<IntOf(part), 3600>>
        ELSE IF window \in {Second, SubSeq(Second, 1, 3), <<"s">>} THEN <<IntOf(part), 1>>
        ELSE <<IntOf(part), 60>>

\* the values RATE_LIMIT is given in the model: whitespace, a count, a
\* separator and a unit, written one after the other.  Each count comes with
\* what Python's int() makes of it, each unit with the window the parser
\* documents for it.
Leads == {<<>>, <<" ", "\t">>}

Counts ==
    {[text |-> <<"1", "0", "0">>, ok |-> TRUE, int |-> 100],
     [text |-> <<"5", "0">>, ok |-> TRUE, int |-> 50],
     [text |-> <<"0">>, ok |-> TRUE, int |-> 0],
     [text |-> <<"7", " ">>, ok |-> TRUE, int |-> 7],
     [text |-> <<"-", "3">>, ok |-> TRUE, int |-> -3],
     [text |-> <<"b", "o", "g", "u", "s">>, ok |-> FALSE, int |-> 0],
     [text |-> <<"1", "x">>, ok |-> FALSE, int |-> 0],
     [text |-> <<>>, ok |-> FALSE, int |-> 0]}

Separators == {<<"/">>, <<" ", "/", " ">>, <<>>}

Units ==
    {[text |-> Minute, secs |-> 60],
     [text |-> <<"m", "i", "n">>, secs |-> 60],
     [text |-> <<"m">>, secs |-> 60],
     [text |-> <<"M", "I", "N">>, secs |-> 60],
     [text |-> Hour, secs |-> 3600],
     [text |-> <<"h">>, secs |-> 3600],
     [text |-> <<"H", "o", "u", "r", " ">>, secs |-> 3600],
     [text |-> Second, secs |-> 1],
     [text |-> <<"s", "e", "c">>, secs |-> 1],
     [text |-> <<"s">>, secs |-> 1],
     [text |-> <<"w", "e", "e", "k">>, secs |-> 60],
     [text |-> <<"m", "/", "s">>, secs |-> 60],
     [text |-> <<>>, secs |-> 60]}

HasSlash(str) == \E i \in DOMAIN str : str[i] = "/"

NotParsed == <<>>

CfgInit ==
    /\ \E lead \in Leads, count \in Counts, sep \in Separators, unit \in Units :
           RATE_LIMIT = lead \o count.text \o sep \o unit.text
    /\ parsed = NotParsed

CfgIdle ==
    /\ RATE_LIMIT = <<"1", "0", "0", "/">> \o Minute
    /\ parsed = NotParsed

\* RateLimitMiddleware.__init__ (rate_limit.py lines 31-36)
Construct ==
    /\ parsed = NotParsed
    /\ parsed' = rate_limit_parsed(RATE_LIMIT)
    /\ max_requests' = rate_limit_parsed(RATE_LIMIT)[1]
    /\ window_seconds' = rate_limit_parsed(RATE_LIMIT)[2]
    /\ storage' = <<>>
    /\ UNCHANGED <<RATE_LIMIT, monotonic, req, last, tally>>
    /\ UNCHANGED <<tokVars, authVars, resVars>>

CfgNext == Construct

(***************************************************************************)
(* The resumes and portfolios routes (app/routers/resumes.py,              *)
(* app/routers/portfolios.py).  Every route depends on get_current_user,   *)
(* and current_user["_id"] is the caller.  No handler awaits between its   *)
(* database calls, so a handler is one step.  A document carries the       *)
(* fields the routes compare or write; content and theme_config are        *)
(* written by update the way title is, and are left out.                   *)
(***************************************************************************)
Callers == {1, 2}               \* current_user["_id"]: two users, each the other's stranger

Never == 0 - 1                  \* deleted_at: None

Title(text) == <<text, 0>>

Copy(title) == <<title[1], title[2] + 1>>   \* f"{doc['title']} (copy)"

\* the documents of a collection: insert_one appends, delete_one leaves None
Stored(coll) == {i \in DOMAIN coll : coll[i] # None}

\* the path parameters: the ids ever handed out, one never handed out, a malformed one
PathIds(coll) == {OidStr(i) : i \in 1..(Len(coll) + 1)} \cup {BadSub}

Success(status_code, data) ==
    [status |-> status_code, body |-> [success |-> TRUE, data |-> data]]

NoAnswer == [seq |-> 0, route |-> "none", caller |-> 0, target |-> NoSub, response |-> NoResponse]

\* seq: the requests the resource routes have answered so far
Answer(route, caller, target, response) ==
    [seq |-> answer.seq + 1, route |-> route, caller |-> caller, target |-> target,
     response |-> response]

\* the run serves MaxServed requests
Serving == answer.seq < MaxServed

\* every order of the members of S
Orderings(S) ==
    {s \in [1..Cardinality(S) -> S] : \A i, j \in 1..Cardinality(S) : i # j => s[i] # s[j]}

\* cursor.sort("created_at", -1): documents with equal created_at come in any order
SortedDesc(coll, order) ==
    \A i, j \in DOMAIN order : i < j => coll[order[i]].created_at >= coll[order[j]].created_at

\* cursor.skip(offset).limit(limit)
Page(order, offset, limit) == SubSeq(order, offset + 1, Min(offset + limit, Len(order)))

\* update_fields applied by {"$set": update_fields}
SetFields(doc, data, now) ==
    [f \in DOMAIN doc |->
        IF f \in DOMAIN data THEN data[f]
        ELSE IF f = "updated_at" THEN now
        ELSE doc[f]]

\* ---- resumes
doc_to_resume(doc, id) ==
    [id |-> OidStr(id), user_id |-> OidStr(doc.user_id), title |-> doc.title,
     is_public |-> doc.is_public, slug |-> doc.slug,
     created_at |-> doc.created_at, updated_at |-> doc.updated_at]

ResumeNotFound == HttpError(404, "Resume not found")

\* _get_own_resume with the owner left out of the filter (mutation of get_own_resume)
get_own_resume_AnyOwner(resume_id, user_id) ==
    IF ~IsObjectId(resume_id) THEN 0
    ELSE LET hits == {i \in Stored(resumes) :
                         /\ i = resume_id[2]
                         /\ resumes[i].deleted_at = Never}
         IN  IF hits = {} THEN 0 ELSE CHOOSE i \in hits : TRUE

\* _get_own_resume (resumes.py lines 36-48): the _id of the document, 0 for the 404
get_own_resume(resume_id, user_id) ==
    IF ~IsObjectId(resume_id) THEN 0
    ELSE LET hits == {i \in Stored(resumes) :
                         /\ i = resume_id[2]
                         /\ resumes[i].user_id = user_id
                         /\ resumes[i].deleted_at = Never}
         IN  IF hits = {} THEN 0 ELSE CHOOSE i \in hits : TRUE

ResumeTitles == {Title("cv")}

ResumeUpdates ==
    {<<>>,
     [title |-> Title("cv2")],
     [slug |-> "me"],
     [is_public |-> TRUE],
     [title |-> Title("cv2"), slug |-> "me"]}

NewResume(user_id, title, now) ==
    [user_id |-> user_id, title |-> title, is_public |-> FALSE, slug |-> Null,
     created_at |-> now, updated_at |-> now, deleted_at |-> Never]

\* GET /resumes (lines 51-66)
list_resumes(caller, limit, offset) ==
    LET hits == {i \in Stored(resumes) :
                    resumes[i].user_id = caller /\ resumes[i].deleted_at = Never}
    IN  /\ Serving
        /\ \E order \in Orderings(hits) :
               /\ SortedDesc(resumes, order)
               /\ LET page == Page(order, offset, limit)
                  IN  answer' = Answer("list_resumes", caller, NoSub,
                                    Success(200, [k \in DOMAIN page |->
                                                     doc_to_resume(resumes[page[k]], page[k])]))
        /\ UNCHANGED <<resumes, portfolios, utcnow>>
        /\ UNCHANGED <<rlVars, tokVars, authVars, cfgVars>>

\* POST /resumes (lines 69-96)
create_resume(caller, title) ==
    /\ Serving
    /\ Len(resumes) < MaxResumes
    /\ LET doc == NewResume(caller, title, utcnow)
       IN  /\ resumes' = Append(resumes, doc)
           /\ answer' = Answer("create_resume", caller, NoSub,
                               Success(201, doc_to_resume(doc, Len(resumes) + 1)))
    /\ UNCHANGED <<portfolios, utcnow>>
    /\ UNCHANGED <<rlVars, tokVars, authVars, cfgVars>>

\* GET /resumes/{resume_id} (lines 99-106)
get_resume(caller, resume_id) ==
    /\ Serving
    /\ LET id == get_own_resume(resume_id, caller)
       IN  answer' = Answer("get_resume", caller, resume_id,
                            IF id = 0 THEN ResumeNotFound
                            ELSE Success(200, doc_to_resume(resumes[id], id)))
    /\ UNCHANGED <<resumes, portfolios, utcnow>>
    /\ UNCHANGED <<rlVars, tokVars, authVars, cfgVars>>

\* PUT /resumes/{resume_id} (lines 109-136)
update_resume(caller, resume_id, data) ==
    /\ Serving
    /\ LET id == get_own_resume(resume_id, caller)
       IN  IF id = 0
           THEN /\ answer' = Answer("update_resume", caller, resume_id, ResumeNotFound)
                /\ UNCHANGED resumes
           ELSE IF /\ "slug" \in DOMAIN data
                   /\ \E j \in Stored(resumes) : j # id /\ resumes[j].slug = data.slug
           THEN /\ answer' = Answer("update_resume", caller, resume_id,
                                    HttpError(400, "Slug already taken"))
                /\ UNCHANGED resumes
           ELSE LET updated == SetFields(resumes[id], data, utcnow)
                IN  /\ resumes' = [resumes EXCEPT ![id] = updated]
                    /\ answer' = Answer("update_resume", caller, resume_id,
                                        Success(200, doc_to_resume(updated, id)))
    /\ UNCHANGED <<portfolios, utcnow>>
    /\ UNCHANGED <<rlVars, tokVars, authVars, cfgVars>>

\* DELETE /resumes/{resume_id} (lines 139-150)
delete_resume(caller, resume_id) ==
    /\ Serving
    /\ LET id == get_own_resume(resume_id, caller)
       IN  IF id = 0
           THEN /\ answer' = Answer("delete_resume", caller, resume_id, ResumeNotFound)
                /\ UNCHANGED resumes
           ELSE /\ resumes' = [resumes EXCEPT ![id].deleted_at = utcnow]
                /\ answer' = Answer("delete_resume", caller, resume_id, Success(200, None))
    /\ UNCHANGED <<portfolios, utcnow>>
    /\ UNCHANGED <<rlVars, tokVars, authVars, cfgVars>>

\* POST /resumes/{resume_id}/duplicate (lines 153-181)
duplicate_resume(caller, resume_id) ==
    /\ Serving
    /\ LET id == get_own_resume(resume_id, caller)
       IN  IF id = 0
           THEN /\ answer' = Answer("duplicate_resume", caller, resume_id, ResumeNotFound)
                /\ UNCHANGED resumes
           ELSE /\ Len(resumes) < MaxResumes
                /\ LET new_doc == NewResume(caller, Copy(resumes[id].title), utcnow)
                   IN  /\ resumes' = Append(resumes, new_doc)
                       /\ answer' = Answer("duplicate_resume", caller, resume_id,
                                           Success(201, doc_to_resume(new_doc, Len(resumes) + 1)))
    /\ UNCHANGED <<portfolios, utcnow>>
    /\ UNCHANGED <<rlVars, tokVars, authVars, cfgVars>>

\* ---- portfolios
doc_to_portfolio(doc, id) ==
    [id |-> OidStr(id), user_id |-> OidStr(doc.user_id), title |-> doc.title,
     subdomain |-> doc.subdomain, is_published |-> doc.is_published,
     created_at |-> doc.created_at, updated_at |-> doc.updated_at]

PortfolioNotFound == HttpError(404, "Portfolio not found")

\* _get_own_portfolio (portfolios.py lines 34-44): the _id of the document, 0 for the 404
get_own_portfolio(portfolio_id, user_id) ==
    IF ~IsObjectId(portfolio_id) THEN 0
    ELSE LET hits == {i \in Stored(portfolios) :
                         /\ i = portfolio_id[2]
                         /\ portfolios[i].user_id = user_id}
         IN  IF hits = {} THEN 0 ELSE CHOOSE i \in hits : TRUE

Subdomains == {"ann", "bob"}

PortfolioUpdates ==
    {<<>>,
     [title |-> Title("site2")],
     [subdomain |-> "bob"],
     [is_published |-> TRUE]}

NewPortfolio(user_id, title, subdomain, now) ==
    [user_id |-> user_id, title |-> title, subdomain |-> subdomain, is_published |-> FALSE,
     created_at |-> now, updated_at |-> now]

\* GET /portfolios (lines 47-53)
list_portfolios(caller) ==
    LET hits == {i \in Stored(portfolios) : portfolios[i].user_id = caller}
    IN  /\ Serving
        /\ \E order \in Orderings(hits) :
               /\ SortedDesc(portfolios, order)
               /\ answer' = Answer("list_portfolios", caller, NoSub,
                                   Success(200, [k \in DOMAIN order |->
                                                    doc_to_portfolio(portfolios[order[k]], order[k])]))
        /\ UNCHANGED <<resumes, portfolios, utcnow>>
        /\ UNCHANGED <<rlVars, tokVars, authVars, cfgVars>>

\* POST /portfolios (lines 56-87)
create_portfolio(caller, subdomain) ==
    /\ Serving
    /\ IF \E j \in Stored(portfolios) : portfolios[j].subdomain = subdomain
       THEN /\ answer' = Answer("create_portfolio", caller, NoSub,
                                HttpError(400, "Subdomain already taken"))
            /\ UNCHANGED portfolios
       ELSE /\ Len(portfolios) < MaxPortfolios
            /\ LET doc == NewPortfolio(caller, Title("site"), subdomain, utcnow)
               IN  /\ portfolios' = Append(portfolios, doc)
                   /\ answer' = Answer("create_portfolio", caller, NoSub,
                                       Success(201, doc_to_portfolio(doc, Len(portfolios) + 1)))
    /\ UNCHANGED <<resumes, utcnow>>
    /\ UNCHANGED <<rlVars, tokVars, authVars, cfgVars>>

\* GET /portfolios/{portfolio_id} (lines 90-97)
get_portfolio(caller, portfolio_id) ==
    /\ Serving
    /\ LET id == get_own_portfolio(portfolio_id, caller)
       IN  answer' = Answer("get_portfolio", caller, portfolio_id,
                            IF id = 0 THEN PortfolioNotFound
                            ELSE Success(200, doc_to_portfolio(portfolios[id], id)))
    /\ UNCHANGED <<resumes, portfolios, utcnow>>
    /\ UNCHANGED <<rlVars, tokVars, authVars, cfgVars>>

\* PUT /portfolios/{portfolio_id} (lines 100-128)
update_portfolio(caller, portfolio_id, data) ==
    /\ Serving
    /\ LET id == get_own_portfolio(portfolio_id, caller)
       IN  IF id = 0
           THEN /\ answer' = Answer("update_portfolio", caller, portfolio_id, PortfolioNotFound)
                /\ UNCHANGED portfolios
           ELSE IF /\ "subdomain" \in DOMAIN data
                   /\ \E j \in Stored(portfolios) :
                          j # id /\ portfolios[j].subdomain = data.subdomain
           THEN /\ answer' = Answer("update_portfolio", caller, portfolio_id,
                                    HttpError(400, "Subdomain already taken"))
                /\ UNCHANGED portfolios
           ELSE LET updated == SetFields(portfolios[id], data, utcnow)
                IN  /\ portfolios' = [portfolios EXCEPT ![id] = updated]
                    /\ answer' = Answer("update_portfolio", caller, portfolio_id,
                                        Success(200, doc_to_portfolio(updated, id)))
    /\ UNCHANGED <<resumes, utcnow>>
    /\ UNCHANGED <<rlVars, tokVars, authVars, cfgVars>>

\* DELETE /portfolios/{portfolio_id} (lines 131-139)
delete_portfolio(caller, portfolio_id) ==
    /\ Serving
    /\ LET id == get_own_portfolio(portfolio_id, caller)
       IN  IF id = 0
           THEN /\ answer' = Answer("delete_portfolio", caller, portfolio_id, PortfolioNotFound)
                /\ UNCHANGED portfolios
           ELSE /\ portfolios' = [portfolios EXCEPT ![id] = None]
                /\ answer' = Answer("delete_portfolio", caller, portfolio_id, Success(200, None))
    /\ UNCHANGED <<resumes, utcnow>>
    /\ UNCHANGED <<rlVars, tokVars, authVars, cfgVars>>

\* datetime.now(timezone.utc) moves on between two requests
ResTick ==
    /\ Serving
    /\ utcnow < MaxResClock
    /\ utcnow' = utcnow + 1
    /\ UNCHANGED <<resumes, portfolios, answer>>
    /\ UNCHANGED <<rlVars, tokVars, authVars, cfgVars>>

ResInit ==
    /\ resumes = <<>>
    /\ portfolios = <<>>
    /\ utcnow = 0
    /\ answer = NoAnswer

ResIdle == ResInit

ResNext ==
    \/ \E c \in Callers, limit \in 1..2, offset \in 0..1 : list_resumes(c, limit, offset)
    \/ \E c \in Callers, title \in ResumeTitles : create_resume(c, title)
    \/ \E c \in Callers, id \in PathIds(resumes) : get_resume(c, id)
    \/ \E c \in Callers, id \in PathIds(resumes), data \in ResumeUpdates : update_resume(c, id, data)
    \/ \E c \in Callers, id \in PathIds(resumes) : delete_resume(c, id)
    \/ \E c \in Callers, id \in PathIds(resumes) : duplicate_resume(c, id)
    \/ \E c \in Callers : list_portfolios(c)
    \/ \E c \in Callers, subdomain \in Subdomains : create_portfolio(c, subdomain)
    \/ \E c \in Callers, id \in PathIds(portfolios) : get_portfolio(c, id)
    \/ \E c \in Callers, id \in PathIds(portfolios), data \in PortfolioUpdates :
           update_portfolio(c, id, data)
    \/ \E c \in Callers, id \in PathIds(portfolios) : delete_portfolio(c, id)
    \/ ResTick

\* the token service before any call (the pipeline model does not use it)
TokIdle ==
    /\ JWT_SECRET = "secret-a"
    /\ JWT_REFRESH_SECRET = "secret-b"
    /\ access_ttl = 0
    /\ refresh_ttl = 0
    /\ clock = 0
    /\ issued = {}
    /\ decoded = NoDecode

RLNext ==
    \/ \E r \in Requests, k \in Keys : Arrive(r, k)
    \/ \E r \in Requests, now \in 0..MaxTime : Dispatch(r, now)
    \/ \E r \in Requests : Handler(r)

RLSpecInit == RLInit /\ TokIdle /\ AuthIdle /\ CfgIdle /\ ResIdle

SpecRL == RLSpecInit /\ [][RLNext]_vars

TokNext ==
    \/ \E s \in Subjects : IssueAccess(s)
    \/ \E s \in Subjects : IssueRefresh(s)
    \/ \E i \in issued : DecodeAccess(i)
    \/ \E i \in issued : DecodeRefresh(i)
    \/ ClockTick

TokSpecInit == TokInit /\ RLIdle /\ AuthIdle /\ CfgIdle /\ ResIdle

SpecTok == TokSpecInit /\ [][TokNext]_vars

\* the settings the auth model runs with: distinct secrets, refresh outliving access
AuthSettings ==
    /\ JWT_SECRET = "secret-a"
    /\ JWT_REFRESH_SECRET = "secret-b"
    /\ access_ttl = MaxTtl
    /\ refresh_ttl = MaxTtl + 1
    /\ clock = 0
    /\ issued = {}
    /\ decoded = NoDecode

AuthSpecInit == AuthInit /\ AuthSettings /\ RLIdle /\ CfgIdle /\ ResIdle

SpecAuth == AuthSpecInit /\ [][AuthNext]_vars

SpecAuthSeq == AuthSpecInit /\ [][AuthSeqNext]_vars

\* the settings of the session model: an access token lasts out the second it
\* was issued in, a refresh token the one after it too
SessionSettings ==
    /\ JWT_SECRET = "secret-a"
    /\ JWT_REFRESH_SECRET = "secret-b"
    /\ access_ttl = 0
    /\ refresh_ttl = 1
    /\ clock = 0
    /\ issued = {}
    /\ decoded = NoDecode

SessionSpecInit == AuthInit /\ SessionSettings /\ RLIdle /\ CfgIdle /\ ResIdle

SpecSession == SessionSpecInit /\ [][SessionNext]_vars

GateSpecInit == AuthInit /\ AuthSettings /\ RLIdle /\ CfgIdle /\ ResIdle

SpecGate == GateSpecInit /\ [][GateNext]_vars

CfgSpecInit == CfgInit /\ RLIdle /\ TokIdle /\ AuthIdle /\ ResIdle

SpecCfg == CfgSpecInit /\ [][CfgNext]_vars

ResSpecInit == ResInit /\ RLIdle /\ TokIdle /\ AuthIdle /\ CfgIdle

SpecRes == ResSpecInit /\ [][ResNext]_vars

(***************************************************************************)
(* Rate limiter: the claims.                                               *)
(***************************************************************************)
Dispatched == last # NoDispatch

RateLimitPos == CHOOSE i \in 1..Len(user_middleware) : user_middleware[i] = "RateLimitMiddleware"

\* C1 (as stated): in every window of every key, of the N requests dispatched
\* so far exactly min(N, max_requests) were accepted and the others rejected,
\* whatever the order of the dispatch calls; never more than max_requests.
C1_ExactlyMaxAccepted ==
    \A k \in DOMAIN tally :
        /\ tally[k].accepted = Min(tally[k].dispatched, max_requests)
        /\ tally[k].accepted <= max_requests

\* C1 (amended): the same for max_requests >= 1.
C1_ExactlyMaxAcceptedPositive ==
    max_requests >= 1 =>
        \A k \in DOMAIN tally :
            /\ tally[k].accepted = Min(tally[k].dispatched, max_requests)
            /\ tally[k].accepted <= max_requests

\* C1 witness: N > max_requests >= 1 requests of one key were dispatched at
\* the very clock reading that started the window, two more requests of which
\* were still in the handler, and the last of them was rejected.
C1_Witness ==
    /\ max_requests >= 1
    /\ Dispatched
    /\ last.key \in DOMAIN tally
    /\ tally[last.key].dispatched > max_requests
    /\ tally[last.key].accepted = max_requests
    /\ last.t = tally[last.key].start
    /\ ~last.accepted
    /\ \E r \in Requests : req[r].state = "inflight" /\ req[r].admitted /\ req[r].key = last.key

\* C2 (as stated): the count after incrementing is the request's rank in its
\* window, and the request is accepted iff that count is <= max_requests.
C2_AcceptedIffWithinMax ==
    Dispatched =>
        /\ last.count = tally[last.key].dispatched
        /\ last.accepted <=> (last.count <= max_requests)

\* C2 (amended): the same for max_requests >= 1.
C2_AcceptedIffWithinMaxPositive ==
    (Dispatched /\ max_requests >= 1) =>
        /\ last.count = tally[last.key].dispatched
        /\ last.accepted <=> (last.count <= max_requests)

\* C2 witness: the request after the first max_requests of a window is rejected
\* with the rate-limit error, the first max_requests having been accepted.
C2_Witness ==
    /\ max_requests >= 1
    /\ Dispatched
    /\ ~last.accepted
    /\ last.count = max_requests + 1
    /\ tally[last.key].accepted = max_requests
    /\ \E r \in Requests : req[r].state = "rejected" /\ req[r].response = RateLimitResponse

\* C3 (as stated): a request of an active key whose window has run out
\* (T - window_start >= window_seconds) leaves the record <<1, T>> and is
\* accepted whatever the old count was; a request of an absent key creates
\* <<1, T>> and is accepted.
C3_ResetOrCreateAccepted ==
    (Dispatched /\ (last.reset \/ last.fresh)) =>
        /\ storage[last.key] = <<1, last.t>>
        /\ last.count = 1 /\ last.start = last.t
        /\ last.accepted

\* C3 (amended): the record is <<1, T>> in both cases; the request of an absent
\* key is accepted, the request that resets a window is accepted iff
\* max_requests >= 1.
C3_ResetOrCreate ==
    (Dispatched /\ (last.reset \/ last.fresh)) =>
        /\ storage[last.key] = <<1, last.t>>
        /\ last.count = 1 /\ last.start = last.t
        /\ last.fresh => last.accepted
        /\ last.reset => (last.accepted <=> max_requests >= 1)

\* C3 witness: a window whose count had grown past max_requests is reset by an
\* accepted request.
C3_Witness ==
    /\ Dispatched
    /\ last.reset
    /\ last.prev > max_requests
    /\ last.accepted
    /\ storage[last.key] = <<1, last.t>>

\* C4: a request is at the router or has been handled only if the rate
\* limiter accepted it; a rejected request carries the 429 rate_limit_exceeded
\* answer and stopped at the rate limiter (call_next was not called for it).
C4_HandlerOnlyAfterAccept ==
    \A r \in Requests :
        /\ (req[r].state = "handled" \/ req[r].pos = Router) => req[r].admitted
        /\ req[r].state = "rejected" =>
              /\ ~req[r].admitted
              /\ req[r].pos = RateLimitPos
              /\ req[r].response.status = 429
              /\ req[r].response.body.error = "rate_limit_exceeded"
        /\ req[r].response = HandlerResponse => req[r].admitted

\* C4 witness: one request was handled and another rejected.
C4_Witness ==
    \E r, q \in Requests :
        /\ req[r].state = "handled" /\ req[r].admitted
        /\ req[q].state = "rejected" /\ req[q].response = RateLimitResponse

(***************************************************************************)
(* Token service: the claims.                                              *)
(***************************************************************************)
Ttl(kind) == IF kind = "access" THEN access_ttl ELSE refresh_ttl

\* C5: decode_access_token refuses every token made by create_refresh_token
\* and decode_refresh_token every token made by create_access_token, also
\* when JWT_SECRET = JWT_REFRESH_SECRET.
C5_CrossUseRejected ==
    /\ (decoded.by = "access" /\ decoded.token.by = "refresh") => decoded.result = None
    /\ (decoded.by = "refresh" /\ decoded.token.by = "access") => decoded.result = None

\* C5 witness: with equal secrets, an unexpired refresh token was refused by
\* decode_access_token.
C5_Witness ==
    /\ JWT_SECRET = JWT_REFRESH_SECRET
    /\ decoded.by = "access"
    /\ decoded.token.by = "refresh"
    /\ decoded.token.token.claims.exp >= Seconds(decoded.at)
    /\ decoded.result = None

\* C6: a token decoded by the decoder of its own kind no later than its
\* lifetime after it was issued yields claims with the subject it was issued
\* for and its kind as type.
C6_RoundTrip ==
    (/\ decoded.by \in {"access", "refresh"}
     /\ decoded.token.by = decoded.by
     /\ decoded.at - decoded.token.at <= Ttl(decoded.by) * TicksPerSecond) =>
        /\ decoded.result # None
        /\ decoded.result.sub = decoded.token.sub
        /\ decoded.result.type = decoded.by

\* C6 witness: a refresh token for u2 was decoded some time after it was issued.
C6_Witness ==
    /\ decoded.by = "refresh"
    /\ decoded.token.by = "refresh"
    /\ decoded.token.sub = "u2"
    /\ decoded.at > decoded.token.at
    /\ decoded.result # None
    /\ decoded.result.sub = "u2"

FailedLogin(w) ==
    /\ frame[w].op = "login" /\ frame[w].pc = "done"
    /\ frame[w].outcome \in {"absent", "no_password", "bad_password"}

Registered(w) == frame[w].op = "register" /\ frame[w].pc = "done"

RecordsOf(email) == {i \in DOMAIN users : users[i].email = email}

\* C8: a login that fails because the email is unknown, because the account
\* has no password hash, or because the password is wrong is answered with
\* one and the same response (status, error code and message): the answers of
\* any two failed logins are equal, whatever their reasons.
C8_LoginFailuresIndistinguishable ==
    /\ \A w, v \in Workers :
           FailedLogin(w) /\ FailedLogin(v) => frame[w].response = frame[v].response
    /\ \A w \in Workers :
           FailedLogin(w) =>
               /\ frame[w].response.status = 401
               /\ \A reason \in {"absent", "no_password", "bad_password"} :
                      frame[w].response = LoginError(reason)

\* C8 witness: a login against an OAuth-only account and a login with an
\* unknown email have both been refused.
C8_Witness ==
    \E w, v \in Workers :
        /\ FailedLogin(w) /\ frame[w].outcome = "no_password"
        /\ FailedLogin(v) /\ frame[v].outcome = "absent"
        /\ \E i \in DOMAIN users : users[i].email = frame[w].email /\ users[i].password_hash = None

\* C9: when two registrations of one email interleave, one of them is refused
\* as a conflict and the collection never holds two records with that email.
C9_DuplicateInsertRejected ==
    /\ \A w, v \in Workers :
           /\ w # v
           /\ Registered(w) /\ Registered(v)
           /\ frame[w].email = frame[v].email
           => ~(frame[w].outcome = "ok" /\ frame[v].outcome = "ok")
    /\ \A i, j \in DOMAIN users :
           users[i].email = users[j].email /\ users[i].provider = "email" /\ users[j].provider = "email"
           => i = j

\* C10: on one event loop, a registration whose email already has a record
\* when the handler runs is answered 400 "Email already registered", inserts
\* nothing and carries no tokens; and after any completed registration the
\* collection holds exactly one record with that email.
C10_SecondRegisterConflicts ==
    \A w \in Workers :
        Registered(w) =>
            /\ frame[w].existed =>
                   /\ frame[w].outcome = "conflict"
                   /\ frame[w].inserted_id = 0
                   /\ frame[w].response = HttpError(400, "Email already registered")
            /\ Cardinality(RecordsOf(frame[w].email)) = 1

\* C10 witness: one registration of an email succeeded and a later one of the
\* same email was refused.
C10_Witness ==
    \E w, v \in Workers :
        /\ w # v
        /\ Registered(w) /\ frame[w].outcome = "ok"
        /\ Registered(v) /\ frame[v].outcome = "conflict" /\ frame[v].existed
        /\ frame[w].email = frame[v].email
        /\ users[frame[w].inserted_id].email = frame[w].email

(***************************************************************************)
(* Token routes: the claims.                                               *)
(***************************************************************************)
Refreshed(w) == frame[w].op = "refresh" /\ frame[w].pc = "done"

Gated(w) == frame[w].op \in ProtectedRoutes /\ frame[w].pc = "done"

\* the subject named a document of the collection when the call was handled
\* (documents are only ever appended, so the first f.size of them were there)
ResolvedThen(f, sub) == \E i \in 1..f.size : sub = OidStr(i)

\* C11: a refresh whose token decode_refresh_token refuses, whose claims have
\* no subject, or whose subject names no user (a subject that is no object
\* id included) is answered 401 and with no token pair, never otherwise.
C11_RefreshFailsWithAuthError ==
    \A w \in Workers :
        Refreshed(w) =>
            LET f == frame[w]
                payload == decode_refresh_token(f.token, f.at)
            IN  (payload = None \/ ~ResolvedThen(f, PayloadSub(payload))) =>
                    /\ f.response.status = 401
                    /\ PairOf(f) = <<>>

\* C12: a protected route answers 401 without running its body when
\* decode_access_token refuses the bearer token or the subject names no user;
\* otherwise the body runs with the user document whose _id is the subject;
\* and a body never runs unless get_current_user returned a user.
C12_CurrentUserGate ==
    \A w \in Workers :
        Gated(w) =>
            LET f == frame[w]
                payload == decode_access_token(f.token, f.at)
            IN  /\ (payload = None \/ ~ResolvedThen(f, PayloadSub(payload))) =>
                       f.response.status = 401 /\ ~f.ran
                /\ (payload # None /\ ResolvedThen(f, PayloadSub(payload))) =>
                       f.ran /\ OidStr(f.user) = PayloadSub(payload)
                /\ f.ran => f.outcome = "ok" /\ f.user \in 1..f.size

\* C13: refresh keeps no record of the tokens it has seen: whenever the
\* refresh token presented is one decode_refresh_token accepts and its subject
\* names a user, the call is answered 200 with a pair made at that moment for
\* the same subject, however often that token or older ones were used before.
C13_StatelessRefresh ==
    \A w \in Workers :
        Refreshed(w) =>
            LET f == frame[w]
                payload == decode_refresh_token(f.token, f.at)
            IN  (payload # None /\ ResolvedThen(f, PayloadSub(payload))) =>
                    /\ f.outcome = "ok"
                    /\ f.response.status = 200
                    /\ PairOf(f) = create_token_pair(PayloadSub(payload), f.at)
                    /\ decode_refresh_token(PairOf(f)[2], f.at).sub = payload.sub
                    /\ decode_access_token(PairOf(f)[1], f.at).sub = payload.sub

\* C13 witness: a refresh token the server issued was presented twice, the
\* second time later than the first, and both calls were answered with a pair.
C13_Witness ==
    /\ Refreshed("w1") /\ frame["w1"].outcome = "ok"
    /\ Refreshed("w2") /\ frame["w2"].outcome = "ok"
    /\ frame["w1"].token = frame["w2"].token
    /\ frame["w1"].at > frame["w2"].at
    /\ frame["w1"].token = create_refresh_token([sub |-> OidStr(1)], 0)
    /\ Len(users) = 1

\* C14: the failures of refresh are answered with one and the same body
\* whichever check failed, and so are the failures of get_current_user.
C14_GenericAuthError ==
    \A w, v \in Workers :
        LET failures == {"rejected", "no_sub", "not_found"}
        IN  /\ frame[w].outcome \in failures /\ frame[v].outcome \in failures
            /\ \/ Refreshed(w) /\ Refreshed(v)
               \/ Gated(w) /\ Gated(v)
            => frame[w].response = frame[v].response

(***************************************************************************)
(* GitHub callback and timestamps: the claims.                             *)
(***************************************************************************)
\* C15: the GitHub callback looks the user up by github_id and only then by
\* email.  If it found one it inserts nothing and sets github_id, avatar_url,
\* last_login and updated_at of that document, and sets full_name only if the
\* document had none; if it found none it inserts exactly one document with
\* provider "github" and no password hash.  Either way it answers with a
\* token pair for that user's id.
C15_OAuthResolution ==
    [][\A w \in Workers :
          GithubWrite(w) =>
              LET f == frame[w]
                  by_id == FindOne("github_id", f.github_id)
                  by_email == FindOne("email", f.email)
                  now == clock
              IN  /\ f.found = (IF by_id # 0 THEN by_id ELSE by_email)
                  /\ IF f.found # 0
                     THEN /\ Len(users') = Len(users)
                          /\ users'[f.found].github_id = f.github_id
                          /\ users'[f.found].avatar_url = "gh-avatar"
                          /\ users'[f.found].last_login = now
                          /\ users'[f.found].updated_at = now
                          /\ users'[f.found].full_name =
                                 (IF users[f.found].full_name # Null
                                  THEN users[f.found].full_name ELSE f.full_name)
                          /\ PairOf(frame'[w]) = create_token_pair(OidStr(f.found), now)
                     ELSE /\ Len(users') = Len(users) + 1
                          /\ users'[Len(users')].provider = "github"
                          /\ users'[Len(users')].password_hash = None
                          /\ users'[Len(users')].email = f.email
                          /\ PairOf(frame'[w]) = create_token_pair(OidStr(Len(users')), now)
                  /\ \A i \in DOMAIN users : i # f.found => users'[i] = users[i]]_vars

\* C16: created_at of a document never changes; whenever a step changes a
\* document, its updated_at is the time of that step; and a login or a GitHub
\* callback that succeeds sets last_login of its user to the time of the step.
C16_Timestamps ==
    [][/\ \A i \in DOMAIN users :
              /\ users'[i].created_at = users[i].created_at
              /\ users'[i] # users[i] => users'[i].updated_at = clock
       /\ \A w \in Workers :
              /\ LoginUpdate(w) => users'[frame[w].found].last_login = clock
              /\ GithubWrite(w) /\ frame[w].found # 0 => users'[frame[w].found].last_login = clock]_vars

(***************************************************************************)
(* Rate limiter: bursts and rejections.                                    *)
(***************************************************************************)
\* the requests of key k accepted at a time in [t, t + window_seconds]
AcceptedInSpan(k, t) ==
    Cardinality({i \in DOMAIN tally[k].log :
                     tally[k].log[i] >= t /\ tally[k].log[i] <= t + window_seconds})

\* C17 (as stated): for every key, no span of window_seconds holds more than
\* 2 * max_requests accepted requests.
C17_BurstBound ==
    \A k \in DOMAIN tally, t \in 0..MaxTime : AcceptedInSpan(k, t) <= 2 * max_requests

\* C17 (amended): the bound holds when max_requests >= 1 (with max_requests = 0
\* the first request of a key is still accepted).
C17_BurstBoundPositive ==
    max_requests >= 1 =>
        \A k \in DOMAIN tally, t \in 0..MaxTime : AcceptedInSpan(k, t) <= 2 * max_requests

\* C17 witness: 2 * max_requests requests of a key were accepted within one
\* span of window_seconds, max_requests before the reset of its window and
\* max_requests from the reset on.
C17_Witness ==
    /\ max_requests >= 1
    /\ last.reset /\ last.prev = max_requests
    /\ tally[last.key].start = last.t
    /\ \E t \in 0..MaxTime :
           /\ AcceptedInSpan(last.key, t) = 2 * max_requests
           /\ t < last.t /\ last.t <= t + window_seconds
           /\ tally[last.key].accepted = max_requests
           /\ Cardinality({i \in DOMAIN tally[last.key].log :
                               tally[last.key].log[i] >= t /\ tally[last.key].log[i] < last.t})
                  = max_requests

\* C20 (as stated): a rejected request leaves the window start of its key as
\* it was and only adds one to the count, and a request that arrives
\* window_seconds or more after the window start is accepted.
C20_RejectionKeepsWindow ==
    [][\A r \in Requests :
          Dispatch(r, monotonic') /\ req[r].key \in DOMAIN storage =>
              LET key == req[r].key
                  now == monotonic'
              IN  /\ ~last'.accepted =>
                         storage'[key] = <<storage[key][1] + 1, storage[key][2]>>
                  /\ now >= storage[key][2] + window_seconds => last'.accepted]_vars

\* C20 (amended): the same when max_requests >= 1 (with max_requests = 0 the
\* request that restarts the window is itself rejected).
C20_RejectionKeepsWindowPositive ==
    [][\A r \in Requests :
          Dispatch(r, monotonic') /\ req[r].key \in DOMAIN storage /\ max_requests >= 1 =>
              LET key == req[r].key
                  now == monotonic'
              IN  /\ ~last'.accepted =>
                         storage'[key] = <<storage[key][1] + 1, storage[key][2]>>
                  /\ now >= storage[key][2] + window_seconds => last'.accepted]_vars

\* C20 witness: after a window in which requests of the key were rejected, the
\* request that arrived once the window had run out was accepted.
C20_Witness ==
    /\ max_requests >= 1
    /\ last.reset /\ last.accepted
    /\ last.prev > max_requests
    /\ storage[last.key] = <<1, last.t>>

(***************************************************************************)
(* Configuration: the claim.                                               *)
(***************************************************************************)
\* what the documentation of the parser gives for a setting written as
\* count, separator, unit
Documented(count, sep, unit) ==
    IF ~HasSlash(sep) THEN <<100, 60>>            \* no "/", or none before the unit's own
    ELSE IF ~count.ok THEN <<100, 60>>
    ELSE <<count.int, unit.secs>>

\* C18: "<int>/<unit>" is parsed to (int, 60) for minute|min|m, (int, 3600)
\* for hour|h, (int, 1) for second|sec|s and (int, 60) for any other unit; a
\* count int() refuses, or a string without "/", gives (100, 60); and the
\* middleware is constructed with exactly that pair.
C18_RateLimitParsing ==
    parsed # NotParsed =>
        /\ \A lead \in Leads, count \in Counts, sep \in Separators, unit \in Units :
               RATE_LIMIT = lead \o count.text \o sep \o unit.text =>
                   parsed = Documented(count, sep, unit)
        /\ max_requests = parsed[1]
        /\ window_seconds = parsed[2]

\* C18 witness: "50/week" was parsed: the count is kept, the window is 60.
C18_Witness ==
    /\ RATE_LIMIT = <<"5", "0", "/", "w", "e", "e", "k">>
    /\ parsed = <<50, 60>>
    /\ max_requests = 50 /\ window_seconds = 60

(***************************************************************************)
(* Ownership of resumes and portfolios.                                    *)
(***************************************************************************)
\* the path names a stored resume that is another user's, or soft-deleted
BarredResume(caller, resume_id) ==
    /\ IsObjectId(resume_id)
    /\ resume_id[2] \in Stored(resumes)
    /\ \/ resumes[resume_id[2]].user_id # caller
       \/ resumes[resume_id[2]].deleted_at # Never

\* the path names a stored portfolio that is another user's
BarredPortfolio(caller, portfolio_id) ==
    /\ IsObjectId(portfolio_id)
    /\ portfolio_id[2] \in Stored(portfolios)
    /\ portfolios[portfolio_id[2]].user_id # caller

\* the step answered a request to this route
Asked(route) == answer'.route = route

\* the request was answered 404 and no document of either collection changed
Refused == answer'.response.status = 404 /\ UNCHANGED <<resumes, portfolios>>

\* every item of the list answered is a stored document of the caller
OwnItems(coll, caller) ==
    \A k \in DOMAIN answer'.response.body.data :
        LET item == answer'.response.body.data[k]
        IN  /\ item.user_id = OidStr(caller)
            /\ item.id[2] \in Stored(coll)
            /\ coll[item.id[2]].user_id = caller

\* C19: get, update, delete and duplicate of a resume or portfolio of another
\* user, or of a soft-deleted resume, answer 404 and change no document; list
\* answers only documents of the caller; DELETE of a resume only sets
\* deleted_at, and no request ever removes a resume.
C19_OwnershipIsolation ==
    [][LET c == answer'.caller
           id == answer'.target
       IN  /\ /\ \/ Asked("get_resume") /\ get_resume(c, id)
                 \/ Asked("delete_resume") /\ delete_resume(c, id)
                 \/ Asked("duplicate_resume") /\ duplicate_resume(c, id)
                 \/ Asked("update_resume") /\ \E data \in ResumeUpdates : update_resume(c, id, data)
              /\ BarredResume(c, id)
              => Refused
           /\ /\ \/ Asked("get_portfolio") /\ get_portfolio(c, id)
                 \/ Asked("delete_portfolio") /\ delete_portfolio(c, id)
                 \/ Asked("update_portfolio") /\
                        \E data \in PortfolioUpdates : update_portfolio(c, id, data)
              /\ BarredPortfolio(c, id)
              => Refused
           /\ /\ Asked("list_resumes")
              /\ \E limit \in 1..2, offset \in 0..1 : list_resumes(c, limit, offset)
              => OwnItems(resumes, c)
           /\ Asked("list_portfolios") /\ list_portfolios(c) => OwnItems(portfolios, c)
           /\ Asked("delete_resume") /\ delete_resume(c, id) =>
                  \/ UNCHANGED resumes
                  \/ resumes' = [resumes EXCEPT ![id[2]].deleted_at = utcnow]
           /\ Len(resumes') >= Len(resumes)
           /\ Stored(resumes) \subseteq Stored(resumes')
      ]_vars

\* user 2 asked to delete the live resume of user 1 and was answered 404
C19_Witness ==
    /\ answer.route = "delete_resume"
    /\ answer.caller = 2
    /\ answer.target = OidStr(1)
    /\ answer.response = ResumeNotFound
    /\ Len(resumes) >= 1
    /\ resumes[1].user_id = 1
    /\ resumes[1].deleted_at = Never

(***************************************************************************)
(* Sessions: the tokens the auth routes hand out, and what a failed call   *)
(* leaves behind.                                                          *)
(***************************************************************************)
\* jwt.decode does not refuse the token for its exp at this time
Unexpired(token, now) == token.claims.exp >= Seconds(now)

\* the pair worker w's call was answered with in this step, <<>> if none
IssuedNow(w) ==
    LET call(f) == <<f.op, f.pc, f.at, f.outcome, f.token>>
    IN  IF call(frame'[w]) # call(frame[w]) THEN PairOf(frame'[w]) ELSE <<>>

\* every pair the routes could have handed out so far for a user of the
\* collection works as long as it has not expired: get_current_user returns
\* that user for the access token, and refresh answers the refresh token with
\* a pair for the same subject
IssuablePairsUsable ==
    \A i \in DOMAIN users, t0 \in 0..clock :
        LET pair == create_token_pair(OidStr(i), t0)
        IN  /\ Unexpired(pair[1], clock) => get_current_user(pair[1], clock) = i
            /\ Unexpired(pair[2], clock) =>
                   /\ RefreshOutcome(pair[2], clock) = "ok"
                   /\ RefreshPair(decode_refresh_token(pair[2], clock), clock)
                          = create_token_pair(OidStr(i), clock)

\* C21: a pair handed out by register, login, refresh or the GitHub callback
\* is made at that moment for the id of a user the collection holds; no step
\* removes a user; so in every later state, whatever was called in between,
\* get_current_user on an unexpired access token of such a pair returns that
\* user and refresh on an unexpired refresh token of it succeeds for that
\* subject.
C21_IssuedTokensUsable ==
    /\ [][/\ \A w \in Workers :
                  IssuedNow(w) # <<>> =>
                      LET pair == IssuedNow(w)
                          sub == pair[1].claims.sub
                      IN  /\ IsObjectId(sub)
                          /\ sub[2] \in DOMAIN users'
                          /\ pair = create_token_pair(sub, clock)
                          /\ Unexpired(pair[1], clock) /\ Unexpired(pair[2], clock)
           /\ Len(users') >= Len(users)
          ]_vars
    /\ []IssuablePairsUsable

\* C21 witness: the access token user 1 got at registration resolved to user 1
\* on a protected route after a second user had been inserted, and the refresh
\* token of that registration is still good.
C21_Witness ==
    \E w \in Workers :
        /\ Gated(w) /\ frame[w].ran /\ frame[w].user = 1
        /\ frame[w].token = create_access_token([sub |-> OidStr(1)], 0)
        /\ Len(users) = 2
        /\ users[1].provider = "email"
        /\ RefreshOutcome(create_refresh_token([sub |-> OidStr(1)], 0), clock) = "ok"

(***************************************************************************)
(* Rate limiter: the storage, key by key.                                  *)
(***************************************************************************)
\* this step is the run of dispatch for request r: r stood at the rate limiter
\* and has moved on or been answered
Processed(r) ==
    /\ req[r].state = "inflight"
    /\ req[r].pos = RateLimitPos
    /\ <<req'[r].state, req'[r].pos>> # <<req[r].state, req[r].pos>>

\* C22: a run of dispatch for a request of key K leaves the record of every
\* other key as it was and leaves K with a record; the storage changes in no
\* other step; and a key that has a record has one in every later state.
C22_KeyIsolation ==
    [][/\ \A r \in Requests :
              Processed(r) =>
                  /\ DOMAIN storage' = DOMAIN storage \cup {req[r].key}
                  /\ \A k \in DOMAIN storage : k # req[r].key => storage'[k] = storage[k]
       /\ storage' # storage => \E r \in Requests : Processed(r)
       /\ DOMAIN storage \subseteq DOMAIN storage'
      ]_vars

\* C22 witness: the first request of ip2 was dispatched after two of ip1, and
\* the record of ip1 still counts two.
C22_Witness ==
    /\ DOMAIN storage = {"ip1", "ip2"}
    /\ last.key = "ip2" /\ last.fresh
    /\ storage["ip1"][1] = 2
    /\ storage["ip2"][1] = 1

\* worker w's call was answered in this step
Finished(w) ==
    LET call(f) == <<f.op, f.pc, f.at, f.outcome, f.token>>
    IN  call(frame'[w]) # call(frame[w]) /\ frame'[w].pc = "done"

\* the ways a call of the auth routes is refused
Refusals ==
    {"conflict", "absent", "no_password", "bad_password",
     "rejected", "no_sub", "raised", "not_found"}

\* C23: a register refused as a conflict, a login refused for an unknown
\* email, a missing password hash or a wrong password, and a refresh or a
\* get_current_user that fails change no document of the users collection
\* (last_login included) and answer with an error body that carries no token;
\* and refresh and get_current_user change no document when they succeed.
C23_FailuresLeaveNoTrace ==
    [][\A w \in Workers :
          Finished(w) =>
              LET f == frame'[w]
              IN  /\ f.outcome \in Refusals =>
                         /\ users' = users
                         /\ PairOf(f) = <<>>
                         /\ f.response.status \in {400, 401, 500}
                         /\ f.response.body.success = FALSE
                         /\ "data" \notin DOMAIN f.response.body
                  /\ f.op \in {"refresh"} \cup ProtectedRoutes => users' = users
                  /\ f.outcome \notin Refusals => f.outcome = "ok"
      ]_vars

\* C23 witness: a login with the wrong password was refused a second after
\* the account was registered, and last_login is still the registration time.
C23_Witness ==
    \E w \in Workers :
        /\ FailedLogin(w) /\ frame[w].outcome = "bad_password"
        /\ Len(users) = 1
        /\ users[1].email = frame[w].email
        /\ users[1].last_login = 0
        /\ clock >= TicksPerSecond

====
